---- MODULE Spec2Model ----
(***************************************************************************)
(* Model of backend/main.py: the process-wide rate limiter                 *)
(* (check_rate_limit), the /ws/conversation handler                        *)
(* (websocket_conversation) and the RealtimeSession it drives, with the    *)
(* upstream forwarding task (handle_openai_response) running next to the   *)
(* client read loop on one asyncio event loop.                             *)
(*                                                                         *)
(* Every await of the handler and of the task is a step of its own; the    *)
(* client and the upstream service are the environment and act between     *)
(* the steps.                                                              *)
(***************************************************************************)
EXTENDS Integers, Sequences, FiniteSets, TLC

\* ------------------------------------------------------------------------
\* Program constants
\* ------------------------------------------------------------------------
RATE_LIMIT_REQUESTS == 100
RATE_LIMIT_WINDOW == 60

\* websocket.close(code=1008, ...): the policy-violation close code
POLICY_VIOLATION == 1008

\* HTTPException(status_code=429, ...) of fetch_papers
TOO_MANY_REQUESTS == 429

\* ------------------------------------------------------------------------
\* Bounds of the model
\* ------------------------------------------------------------------------
\* client frames one session's read loop receives
MaxClientMsgs == 2
\* upstream events one session's forwarding task receives
MaxUpstreamEvents == 2
\* client frames the concurrent sessions receive, all together
MaxTwoMsgs == 1
\* upstream events the concurrent sessions receive, all together
MaxTwoEvents == 1
\* upstream events of one session when every kind of event is drawn
MaxWideEvents == 1
\* papers built from the entries one fetch_arxiv_papers call has fetched
MaxFetched == 12
\* check_rate_limit calls of one run of the rate-limiter specification
MaxRequests == 4
\* the clock (time.time(), in seconds) stops advancing here
MaxTime == 121

\* client identities (websocket.client.host / http_request.client.host)
Ids == {"a", "b"}

\* the identity the modelled websocket connection comes from
client_ip == "a"

\* the websocket connections that are served concurrently
SessionIds == {1, 2}

VARIABLES
    \* ---- rate limiter --------------------------------------------------
    rate_limit_store,   \* identity -> list of admitted timestamps
    now,                \* time.time()
    rl_last,            \* the last check_rate_limit call: identity, result
    admitted,           \* history: identity -> every timestamp ever admitted
    calls,              \* history: number of check_rate_limit calls made
    \* ---- one websocket connection and its session -----------------------
    pc,                 \* position of websocket_conversation
    api_key,            \* os.getenv("OPENAI_API_KEY") is set
    session,            \* a RealtimeSession has been constructed
    openai_ws,          \* session.openai_ws: None, open, dropped, closed
    openai_task,        \* the task running handle_openai_response
    client_ws,          \* the client connection
    close_code,         \* code of the close frame the handler sent (0: none)
    escaped,            \* the exception that left the handler, if any
    upstream_sent,      \* events sent on openai_ws, in order
    event_ids,          \* history: the event_id of each event of upstream_sent
    client_sent,        \* messages sent to the client, in order
    client_recv,        \* history: frames the read loop received, in order
    openai_recv,        \* history: events the forwarding task received
    \* ---- concurrent connections, each with its own session --------------
    sessions,           \* connection -> the handler's locals and its session
    \* ---- one call of fetch_arxiv_papers ---------------------------------
    papers,             \* the papers built from the fetched entries, in order
    returned,           \* what the call returned, once it has
    status_code         \* status of the error /api/papers answered last (0: none)

rl_vars == <<rate_limit_store, now, rl_last, admitted, calls>>

single_vars == <<pc, api_key, session, openai_ws, openai_task, client_ws,
                 close_code, escaped, upstream_sent, event_ids, client_sent,
                 client_recv, openai_recv>>

conn_vars == <<single_vars, sessions>>

paper_vars == <<papers, returned, status_code>>

vars == <<rate_limit_store, now, rl_last, admitted, calls,
          pc, api_key, session, openai_ws, openai_task, client_ws, close_code,
          escaped, upstream_sent, event_ids, client_sent, client_recv,
          openai_recv, sessions, papers, returned, status_code>>

\* ------------------------------------------------------------------------
\* check_rate_limit
\* ------------------------------------------------------------------------

\* a list holding n copies of timestamp t: the entry of an identity after n
\* admitted calls at time t
Filled(n, t) == [i \in 1..n |-> t]

\* a cleaning whose window is one second short
CleanOld_short(timestamps, t) ==
    SelectSeq(timestamps, LAMBDA timestamp : t - timestamp < RATE_LIMIT_WINDOW - 1)

\* a cleaning that keeps every timestamp
CleanOld_keeps_all(timestamps, t) == timestamps

\* "Clean old requests": keep the timestamps with now - timestamp < WINDOW
CleanOld(timestamps, t) ==
    SelectSeq(timestamps, LAMBDA timestamp : t - timestamp < RATE_LIMIT_WINDOW)

\* the ceiling compared with > where the code has >=
OverLimit_strict(timestamps) == Len(timestamps) > RATE_LIMIT_REQUESTS

\* "Check if under limit": len(...) >= RATE_LIMIT_REQUESTS denies
OverLimit(timestamps) == Len(timestamps) >= RATE_LIMIT_REQUESTS

\* a check that cleans the entry of every identity
check_rate_limit_cleans_all(store, ip, t) ==
    LET cleaned == [other \in DOMAIN store |-> CleanOld(store[other], t)]
    IN  IF OverLimit(cleaned[ip])
        THEN [allowed |-> FALSE, store |-> cleaned]
        ELSE [allowed |-> TRUE,
              store |-> [cleaned EXCEPT ![ip] = Append(cleaned[ip], t)]]

\* a check that records the denied call as well
check_rate_limit_records_denied(store, ip, t) ==
    LET cleaned == CleanOld(store[ip], t)
    IN  [allowed |-> ~OverLimit(cleaned),
         store |-> [store EXCEPT ![ip] = Append(cleaned, t)]]

\* check_rate_limit(ip) at time t on the store: the returned bool and the
\* store it leaves behind
check_rate_limit(store, ip, t) ==
    LET cleaned == CleanOld(store[ip], t)
    IN  IF OverLimit(cleaned)
        THEN [allowed |-> FALSE, store |-> [store EXCEPT ![ip] = cleaned]]
        ELSE [allowed |-> TRUE,
              store |-> [store EXCEPT ![ip] = Append(cleaned, t)]]

\* the effect of one check_rate_limit(ip) call on the rate-limiter state
RateLimitCall(ip) ==
    LET r == check_rate_limit(rate_limit_store, ip, now)
    IN  /\ rate_limit_store' = r.store
        /\ rl_last' = [ip |-> ip, allowed |-> r.allowed]
        /\ admitted' = IF r.allowed
                       THEN [admitted EXCEPT ![ip] = Append(@, now)]
                       ELSE admitted
        /\ calls' = calls + 1
        /\ UNCHANGED now

\* POST /api/papers from identity ip: the rate-limit check that opens
\* fetch_papers (a denied request gets 429, an allowed one goes on to arXiv)
fetch_papers(ip) ==
    /\ calls < MaxRequests
    /\ RateLimitCall(ip)
    /\ status_code' = IF rl_last'.allowed THEN 0 ELSE TOO_MANY_REQUESTS
    /\ UNCHANGED conn_vars
    /\ UNCHANGED <<papers, returned>>

\* the clock advances by d seconds
Tick(d) ==
    /\ now + d <= MaxTime
    /\ now' = now + d
    /\ UNCHANGED <<rate_limit_store, rl_last, admitted, calls>>
    /\ UNCHANGED conn_vars
    /\ UNCHANGED paper_vars

\* the steps by which the clock advances between calls: one second short of
\* the window, and exactly the window
TickSteps == {RATE_LIMIT_WINDOW - 1, RATE_LIMIT_WINDOW}

\* the entries an identity can hold when a run starts: none, or what a burst
\* of admitted calls at time 0 leaves behind (two short of the ceiling)
StartEntries == {<<>>, Filled(RATE_LIMIT_REQUESTS - 2, 0)}

\* ------------------------------------------------------------------------
\* Messages
\* ------------------------------------------------------------------------

\* a websocket frame whose text is not JSON: receive_json / json.loads raise
NotJson == [not_json |-> TRUE]

\* the frames a client sends: the two kinds of the protocol, a kind the
\* relay does not know, an audio message without its payload, and text that
\* is not JSON
ClientFrames ==
    { [type |-> "text", text |-> "hello"],
      [type |-> "audio", audio |-> "UklGRg"],
      [type |-> "ping"],
      [type |-> "audio"],
      NotJson }

\* the events the upstream service emits to a session: the acknowledgment,
\* the two deltas, the end of a response, and an event type that
\* handle_openai_response has no branch for
OpenAIEvents ==
    { [type |-> "session.created"],
      [type |-> "response.text.delta", delta |-> "Hi"],
      [type |-> "response.audio.delta", delta |-> "AAEC"],
      [type |-> "response.done"],
      [type |-> "error", message |-> "rejected"] }

\* every kind of frame the upstream service can put on the connection: the
\* events above, the two voice-activity events, the acknowledgment of
\* session.update, the two transcription events of the user's audio (the
\* session is configured with input_audio_transcription enabled), and text
\* that is not JSON
AllOpenAIEvents ==
    OpenAIEvents \cup
    { [type |-> "input_audio_buffer.speech_started"],
      [type |-> "input_audio_buffer.speech_stopped"],
      [type |-> "session.updated"],
      [type |-> "conversation.item.input_audio_transcription.delta",
       delta |-> "hel"],
      [type |-> "conversation.item.input_audio_transcription.completed",
       transcript |-> "hello"],
      NotJson }

\* dict.get(key, default)
Get(d, key, default) == IF key \in DOMAIN d THEN d[key] ELSE default

\* "event_id": f"event_{datetime.now().isoformat()}": the prefix and the
\* reading t of the clock
event_id(t) == <<"event_", t>>

\* session_update of _send_session_update
session_update == [type |-> "session.update"]

\* item_event of handle_client_message, for a message of kind audio or text
\* that carries its payload
item_event(message) ==
    IF message.type = "audio"
    THEN [type |-> "conversation.item.create", role |-> "user",
          content_type |-> "input_audio", content |-> message.audio]
    ELSE [type |-> "conversation.item.create", role |-> "user",
          content_type |-> "input_text", content |-> message.text]

\* _send_session_update left out: connect_to_openai returns True all the same
send_session_update_skipped(sent) == sent

\* _send_session_update: "await self.openai_ws.send(json.dumps(session_update))"
send_session_update(sent) == Append(sent, session_update)

\* response_event of handle_client_message
response_event == [type |-> "response.create"]

\* message["audio"] / message["text"] raises KeyError
PayloadMissing(message) ==
    \/ message.type = "audio" /\ "audio" \notin DOMAIN message
    \/ message.type = "text" /\ "text" \notin DOMAIN message

\* the chain with the audio payload read from the key "audio" of the event
ClientMessagesFor_wrong_key(data) ==
    LET event_type == Get(data, "type", "None")
    IN  CASE event_type = "session.created" -> <<[type |-> "session_ready"]>>
          [] event_type = "response.audio.delta" ->
                <<[type |-> "audio_delta", audio |-> Get(data, "audio", "")]>>
          [] event_type = "response.text.delta" ->
                <<[type |-> "text_delta", text |-> Get(data, "delta", "")]>>
          [] event_type = "response.done" -> <<[type |-> "response_done"]>>
          [] event_type = "input_audio_buffer.speech_started" ->
                <<[type |-> "speech_started"]>>
          [] event_type = "input_audio_buffer.speech_stopped" ->
                <<[type |-> "speech_stopped"]>>
          [] OTHER -> <<>>

\* the if/elif chain of handle_openai_response: the messages (none or one)
\* sent to the client for one upstream event
ClientMessagesFor(data) ==
    LET event_type == Get(data, "type", "None")
    IN  CASE event_type = "session.created" -> <<[type |-> "session_ready"]>>
          [] event_type = "response.audio.delta" ->
                <<[type |-> "audio_delta", audio |-> Get(data, "delta", "")]>>
          [] event_type = "response.text.delta" ->
                <<[type |-> "text_delta", text |-> Get(data, "delta", "")]>>
          [] event_type = "response.done" -> <<[type |-> "response_done"]>>
          [] event_type = "input_audio_buffer.speech_started" ->
                <<[type |-> "speech_started"]>>
          [] event_type = "input_audio_buffer.speech_stopped" ->
                <<[type |-> "speech_stopped"]>>
          [] OTHER -> <<>>

\* a send that puts the message in front of the ones already sent
send_json_front(sent, message) ==
    IF client_ws = "connected" THEN <<message>> \o sent ELSE sent

\* the `error` messages in a list of client messages
ErrorsSent(sent) == Len(SelectSeq(sent, LAMBDA m : m.type = "error"))

\* websocket.send_json(message): delivered only to a connected client
send_json(sent, message) ==
    IF client_ws = "connected" THEN Append(sent, message) ELSE sent

\* a close that releases nothing
close_nothing(ws) == ws

\* a close that fails on a connection it has closed before
close_once(ws) ==
    IF ws = "open" THEN "closed" ELSE IF ws = "closed" THEN "raised" ELSE ws

\* RealtimeSession.close: "if self.openai_ws: await self.openai_ws.close()"
close(ws) == IF ws = "open" THEN "closed" ELSE ws

\* Task.cancel(): a running task is asked to stop, a finished one is left
cancel(task) == IF task = "running" THEN "cancelling" ELSE task

\* ------------------------------------------------------------------------
\* websocket_conversation
\* ------------------------------------------------------------------------

\* the handler with the "return" after websocket.close(code=1008) left out:
\* a denied connection is closed and still gets its session
Connect_no_return ==
    /\ pc = "start"
    /\ RateLimitCall(client_ip)
    /\ client_ws' = IF rl_last'.allowed THEN "connected" ELSE "closed"
    /\ close_code' = IF rl_last'.allowed THEN close_code ELSE POLICY_VIOLATION
    /\ session' = TRUE
    /\ pc' = "connect"
    /\ UNCHANGED <<api_key, openai_ws, openai_task, escaped, upstream_sent,
                   client_sent, client_recv, openai_recv>>
    /\ UNCHANGED <<event_ids, sessions, paper_vars>>

\* lines 352-358: the rate-limit check; a denied connection is closed with
\* 1008 and the handler returns, an allowed one is accepted and gets a session
Connect ==
    /\ pc = "start"
    /\ RateLimitCall(client_ip)
    /\ IF rl_last'.allowed
       THEN /\ client_ws' = "connected"
            /\ session' = TRUE
            /\ pc' = "connect"
            /\ UNCHANGED close_code
       ELSE /\ client_ws' = "closed"
            /\ close_code' = POLICY_VIOLATION
            /\ pc' = "done"
            /\ UNCHANGED session
    /\ UNCHANGED <<api_key, openai_ws, openai_task, escaped, upstream_sent,
                   client_sent, client_recv, openai_recv>>
    /\ UNCHANGED <<event_ids, sessions, paper_vars>>

\* connect_to_openai up to the handshake: without an API key HTTPException
\* is raised before the try, so it leaves connect_to_openai and the handler
\* (through the finally); with one, websockets.connect succeeds or raises,
\* and a raise is turned into return False
ConnectToOpenAI ==
    /\ pc = "connect"
    /\ IF ~api_key
       THEN /\ escaped' = "HTTPException"
            /\ pc' = "finally"
            /\ UNCHANGED openai_ws
       ELSE \E handshake \in BOOLEAN :
                /\ openai_ws' = IF handshake THEN "open" ELSE "None"
                /\ pc' = IF handshake THEN "configure" ELSE "conn_failed"
                /\ UNCHANGED escaped
    /\ UNCHANGED rl_vars
    /\ UNCHANGED <<api_key, session, openai_task, client_ws, close_code,
                   upstream_sent, client_sent, client_recv, openai_recv>>
    /\ UNCHANGED <<event_ids, sessions, paper_vars>>

\* _send_session_update, then return True and create_task(handle_openai_
\* response()); a send on a connection that dropped raises, and connect_to_
\* openai returns False
SendSessionUpdate ==
    /\ pc = "configure"
    /\ IF openai_ws = "open"
       THEN /\ upstream_sent' = send_session_update(upstream_sent)
            /\ event_ids' = Append(event_ids, event_id(now))
            /\ openai_task' = "running"
            /\ pc' = "loop"
       ELSE /\ pc' = "conn_failed"
            /\ UNCHANGED <<upstream_sent, event_ids, openai_task>>
    /\ UNCHANGED rl_vars
    /\ UNCHANGED <<api_key, session, openai_ws, client_ws, close_code, escaped,
                   client_sent, client_recv, openai_recv>>
    /\ UNCHANGED <<sessions, paper_vars>>

\* a handler that tries connect_to_openai again after it returned False
SendConnectError_retry ==
    /\ pc = "conn_failed"
    /\ client_sent' = send_json(client_sent,
            [type |-> "error", message |-> "Failed to connect to OpenAI"])
    /\ pc' = IF ErrorsSent(client_sent) = 0 THEN "connect" ELSE "finally"
    /\ UNCHANGED rl_vars
    /\ UNCHANGED <<api_key, session, openai_ws, openai_task, client_ws, close_code,
                   escaped, upstream_sent, client_recv, openai_recv>>
    /\ UNCHANGED <<event_ids, sessions, paper_vars>>

\* lines 362-364: connect_to_openai returned False. A send to a client that
\* has gone is dropped by some servers and raises with others; the raise is
\* caught at line 378, whose own send raises again and leaves the handler.
SendConnectError ==
    /\ pc = "conn_failed"
    /\ client_sent' = send_json(client_sent,
            [type |-> "error", message |-> "Failed to connect to OpenAI"])
    /\ \E raises \in BOOLEAN :
          escaped' = IF client_ws # "connected" /\ raises
                     THEN "SendError" ELSE escaped
    /\ pc' = "finally"
    /\ UNCHANGED rl_vars
    /\ UNCHANGED <<api_key, session, openai_ws, openai_task, client_ws, close_code,
                   upstream_sent, client_recv, openai_recv>>
    /\ UNCHANGED <<event_ids, sessions, paper_vars>>

\* a read loop that holds back a message while a response is streaming
HandleClientMessage_busy(frame) ==
    /\ pc = "loop"
    /\ client_ws = "connected"
    /\ Len(client_recv) < MaxClientMsgs
    /\ client_recv' = Append(client_recv, frame)
    /\ IF frame = NotJson
       THEN /\ pc' = "loop_error"
            /\ UNCHANGED <<upstream_sent, event_ids>>
       ELSE IF /\ Get(frame, "type", "None") \in {"audio", "text"}
               /\ ~PayloadMissing(frame)
               /\ openai_ws = "open"
               /\ \/ openai_recv = <<>>
                  \/ openai_recv[Len(openai_recv)].type \notin
                        {"response.text.delta", "response.audio.delta"}
            THEN /\ upstream_sent' = Append(upstream_sent, item_event(frame))
                 /\ event_ids' = Append(event_ids, event_id(now))
                 /\ pc' = "send_response"
            ELSE /\ pc' = "loop"
                 /\ UNCHANGED <<upstream_sent, event_ids>>
    /\ UNCHANGED rl_vars
    /\ UNCHANGED <<api_key, session, openai_ws, openai_task, client_ws, close_code,
                   escaped, client_sent, openai_recv>>
    /\ UNCHANGED <<sessions, paper_vars>>

\* a read loop that treats a message of a kind it does not know as an error
HandleClientMessage_strict(frame) ==
    /\ pc = "loop"
    /\ client_ws = "connected"
    /\ Len(client_recv) < MaxClientMsgs
    /\ client_recv' = Append(client_recv, frame)
    /\ IF frame = NotJson \/ Get(frame, "type", "None") \notin {"audio", "text"}
       THEN /\ pc' = "loop_error"
            /\ UNCHANGED <<upstream_sent, event_ids>>
       ELSE IF ~PayloadMissing(frame) /\ openai_ws = "open"
            THEN /\ upstream_sent' = Append(upstream_sent, item_event(frame))
                 /\ event_ids' = Append(event_ids, event_id(now))
                 /\ pc' = "send_response"
            ELSE /\ pc' = "loop"
                 /\ UNCHANGED <<upstream_sent, event_ids>>
    /\ UNCHANGED rl_vars
    /\ UNCHANGED <<api_key, session, openai_ws, openai_task, client_ws, close_code,
                   escaped, client_sent, openai_recv>>
    /\ UNCHANGED <<sessions, paper_vars>>

\* lines 372-373: receive_json returns a frame and handle_client_message runs
\* up to its first await (the send of item_event). Text that is not JSON
\* raises in receive_json and leaves the loop; a message of another kind does
\* nothing; a missing payload or a send on a closed connection raises inside
\* handle_client_message, which logs it.
HandleClientMessage(frame) ==
    /\ pc = "loop"
    /\ client_ws = "connected"
    /\ Len(client_recv) < MaxClientMsgs
    /\ client_recv' = Append(client_recv, frame)
    /\ IF frame = NotJson
       THEN /\ pc' = "loop_error"
            /\ UNCHANGED <<upstream_sent, event_ids>>
       ELSE IF /\ Get(frame, "type", "None") \in {"audio", "text"}
               /\ ~PayloadMissing(frame)
               /\ openai_ws = "open"
            THEN /\ upstream_sent' = Append(upstream_sent, item_event(frame))
                 /\ event_ids' = Append(event_ids, event_id(now))
                 /\ pc' = "send_response"
            ELSE /\ pc' = "loop"
                 /\ UNCHANGED <<upstream_sent, event_ids>>
    /\ UNCHANGED rl_vars
    /\ UNCHANGED <<api_key, session, openai_ws, openai_task, client_ws, close_code,
                   escaped, client_sent, openai_recv>>
    /\ UNCHANGED <<sessions, paper_vars>>

\* a send of response_event whose failure leaves handle_client_message
SendResponseCreate_escapes ==
    /\ pc = "send_response"
    /\ upstream_sent' = IF openai_ws = "open"
                        THEN Append(upstream_sent, response_event)
                        ELSE upstream_sent
    /\ event_ids' = IF openai_ws = "open"
                    THEN Append(event_ids, event_id(now))
                    ELSE event_ids
    /\ pc' = IF openai_ws = "open" THEN "loop" ELSE "loop_error"
    /\ UNCHANGED rl_vars
    /\ UNCHANGED <<api_key, session, openai_ws, openai_task, client_ws, close_code,
                   escaped, client_sent, client_recv, openai_recv>>
    /\ UNCHANGED <<sessions, paper_vars>>

\* the second await of handle_client_message: the send of response_event; on
\* a connection that closed meanwhile it raises, which is logged
SendResponseCreate ==
    /\ pc = "send_response"
    /\ upstream_sent' = IF openai_ws = "open"
                        THEN Append(upstream_sent, response_event)
                        ELSE upstream_sent
    /\ event_ids' = IF openai_ws = "open"
                    THEN Append(event_ids, event_id(now))
                    ELSE event_ids
    /\ pc' = "loop"
    /\ UNCHANGED rl_vars
    /\ UNCHANGED <<api_key, session, openai_ws, openai_task, client_ws, close_code,
                   escaped, client_sent, client_recv, openai_recv>>
    /\ UNCHANGED <<sessions, paper_vars>>

\* lines 375-377: receive_json raises WebSocketDisconnect
HandleDisconnect ==
    /\ pc = "loop"
    /\ client_ws = "disconnected"
    /\ openai_task' = cancel(openai_task)
    /\ pc' = "finally"
    /\ UNCHANGED rl_vars
    /\ UNCHANGED <<api_key, session, openai_ws, client_ws, close_code, escaped,
                   upstream_sent, client_sent, client_recv, openai_recv>>
    /\ UNCHANGED <<event_ids, sessions, paper_vars>>

\* lines 378-380: another exception left the read loop. The send of the
\* report stands in the except clause: if it raises (the client has gone),
\* the exception leaves the handler.
SendLoopError ==
    /\ pc = "loop_error"
    /\ client_sent' = send_json(client_sent,
            [type |-> "error", message |-> "Expecting value"])
    /\ \E raises \in BOOLEAN :
          escaped' = IF client_ws # "connected" /\ raises
                     THEN "SendError" ELSE escaped
    /\ pc' = "finally"
    /\ UNCHANGED rl_vars
    /\ UNCHANGED <<api_key, session, openai_ws, openai_task, client_ws, close_code,
                   upstream_sent, client_recv, openai_recv>>
    /\ UNCHANGED <<event_ids, sessions, paper_vars>>

\* a cancellation that leaves the handler without running its finally
HandlerCancelled_no_finally ==
    /\ pc \in {"connect", "configure", "conn_failed", "loop", "send_response",
               "loop_error"}
    /\ escaped' = "CancelledError"
    /\ pc' = "done"
    /\ UNCHANGED rl_vars
    /\ UNCHANGED <<api_key, session, openai_ws, openai_task, client_ws, close_code,
                   upstream_sent, event_ids, client_sent, client_recv, openai_recv>>
    /\ UNCHANGED <<sessions, paper_vars>>

\* the server cancels the handler (shutdown): CancelledError is thrown into
\* it at the await of the try body it is suspended in. It is no Exception,
\* so neither connect_to_openai's, handle_client_message's nor the handler's
\* "except Exception" catches it, and it leaves through the finally.
HandlerCancelled ==
    /\ pc \in {"connect", "configure", "conn_failed", "loop", "send_response",
               "loop_error"}
    /\ escaped' = "CancelledError"
    /\ pc' = "finally"
    /\ UNCHANGED rl_vars
    /\ UNCHANGED <<api_key, session, openai_ws, openai_task, client_ws, close_code,
                   upstream_sent, event_ids, client_sent, client_recv, openai_recv>>
    /\ UNCHANGED <<sessions, paper_vars>>

\* lines 382-383: session.close(), and the handler is left; the server closes
\* a client connection that is still open once its handler has returned
Finally ==
    /\ pc = "finally"
    /\ openai_ws' = close(openai_ws)
    /\ client_ws' = IF client_ws = "connected" THEN "closed" ELSE client_ws
    /\ pc' = "done"
    /\ UNCHANGED rl_vars
    /\ UNCHANGED <<api_key, session, openai_task, close_code, escaped,
                   upstream_sent, client_sent, client_recv, openai_recv>>
    /\ UNCHANGED <<event_ids, sessions, paper_vars>>

\* ------------------------------------------------------------------------
\* handle_openai_response (the forwarding task)
\* ------------------------------------------------------------------------

\* a forwarding task that an event of a kind it does not know brings down
ForwardOpenAIEvent_strict(data, raises) ==
    /\ openai_task = "running"
    /\ openai_ws = "open"
    /\ Len(openai_recv) < MaxUpstreamEvents
    /\ openai_recv' = Append(openai_recv, data)
    /\ IF data = NotJson \/ ClientMessagesFor(data) = <<>>
       THEN /\ openai_task' = "done"
            /\ UNCHANGED client_sent
       ELSE /\ client_sent' = send_json(client_sent, ClientMessagesFor(data)[1])
            /\ openai_task' = IF client_ws # "connected" /\ raises
                              THEN "done" ELSE openai_task
    /\ UNCHANGED rl_vars
    /\ UNCHANGED <<pc, api_key, session, openai_ws, client_ws, close_code, escaped,
                   upstream_sent, client_recv>>
    /\ UNCHANGED <<event_ids, sessions, paper_vars>>

\* one round of "async for message in self.openai_ws": the event is parsed
\* and its client message, if it has one, is sent. A send to a client that
\* has gone is dropped by some servers and raises with others; the raise is
\* caught by "except Exception" and ends the task, and so does the raise of
\* json.loads on text that is not JSON.
ForwardOpenAIEvent(data, raises) ==
    /\ openai_task = "running"
    /\ openai_ws = "open"
    /\ Len(openai_recv) < MaxUpstreamEvents
    /\ openai_recv' = Append(openai_recv, data)
    /\ IF data = NotJson
       THEN /\ openai_task' = "done"
            /\ UNCHANGED client_sent
       ELSE IF ClientMessagesFor(data) = <<>>
            THEN UNCHANGED <<client_sent, openai_task>>
            ELSE /\ client_sent' = send_json(client_sent, ClientMessagesFor(data)[1])
                 /\ openai_task' = IF client_ws # "connected" /\ raises
                                   THEN "done" ELSE openai_task
    /\ UNCHANGED rl_vars
    /\ UNCHANGED <<pc, api_key, session, openai_ws, client_ws, close_code, escaped,
                   upstream_sent, client_recv>>
    /\ UNCHANGED <<event_ids, sessions, paper_vars>>

\* one round of the forwarding task with the event drawn from every kind
ForwardWide(data, raises) ==
    /\ Len(openai_recv) < MaxWideEvents
    /\ ForwardOpenAIEvent(data, raises)

\* the iteration ends: the upstream connection is closed (ConnectionClosed,
\* or the end of the async for)
TaskEnd ==
    /\ openai_task = "running"
    /\ openai_ws \in {"dropped", "closed"}
    /\ openai_task' = "done"
    /\ UNCHANGED rl_vars
    /\ UNCHANGED <<pc, api_key, session, openai_ws, client_ws, close_code, escaped,
                   upstream_sent, client_sent, client_recv, openai_recv>>
    /\ UNCHANGED <<event_ids, sessions, paper_vars>>

\* CancelledError is thrown into the task at its await; no handler of
\* handle_openai_response keeps the task alive
TaskCancelled ==
    /\ openai_task = "cancelling"
    /\ openai_task' = "cancelled"
    /\ UNCHANGED rl_vars
    /\ UNCHANGED <<pc, api_key, session, openai_ws, client_ws, close_code, escaped,
                   upstream_sent, client_sent, client_recv, openai_recv>>
    /\ UNCHANGED <<event_ids, sessions, paper_vars>>

\* ------------------------------------------------------------------------
\* The environment
\* ------------------------------------------------------------------------

\* the upstream service, or the network, closes the upstream connection
UpstreamClose ==
    /\ openai_ws = "open"
    /\ openai_ws' = "dropped"
    /\ UNCHANGED rl_vars
    /\ UNCHANGED <<pc, api_key, session, openai_task, client_ws, close_code,
                   escaped, upstream_sent, client_sent, client_recv, openai_recv>>
    /\ UNCHANGED <<event_ids, sessions, paper_vars>>

\* the client goes away
ClientDisconnect ==
    /\ client_ws = "connected"
    /\ client_ws' = "disconnected"
    /\ UNCHANGED rl_vars
    /\ UNCHANGED <<pc, api_key, session, openai_ws, openai_task, close_code,
                   escaped, upstream_sent, client_sent, client_recv, openai_recv>>
    /\ UNCHANGED <<event_ids, sessions, paper_vars>>

\* ------------------------------------------------------------------------
\* Concurrent connections: websocket_conversation runs once per connection,
\* each run with its own locals (websocket, session, openai_task) and its own
\* RealtimeSession; rate_limit_store is the module's
\* ------------------------------------------------------------------------

\* what the client of connection c says, and what its upstream answers
TextOf(c) == IF c = 1 THEN "hello" ELSE "world"
DeltaOf(c) == IF c = 1 THEN "Hi" ELSE "Yo"

\* the frames the client of connection c sends
FramesOf(c) == {[type |-> "text", text |-> TextOf(c)], NotJson}

\* the events the upstream connection of c's session carries
EventsOf(c) == {[type |-> "response.text.delta", delta |-> DeltaOf(c)]}

\* a connection before its handler has started
NoSession ==
    [pc |-> "start", session |-> FALSE, openai_ws |-> "None",
     openai_task |-> "none", client_ws |-> "connecting", close_code |-> 0,
     upstream_sent |-> <<>>, client_sent |-> <<>>,
     client_recv |-> <<>>, openai_recv |-> <<>>]

\* the frames, or events, all connections have received
RECURSIVE ReceivedBy(_, _)
ReceivedBy(S, field) ==
    IF S = {}
    THEN 0
    ELSE LET c == CHOOSE x \in S : TRUE
         IN  Len(sessions[c][field]) + ReceivedBy(S \ {c}, field)

\* a send that reaches the client of every connection
deliver_all(ss, c, message) ==
    [d \in SessionIds |->
        IF ss[d].client_ws = "connected"
        THEN [ss[d] EXCEPT !.client_sent = Append(@, message)]
        ELSE ss[d]]

\* self.client_ws.send_json / websocket.send_json of connection c: the
\* message goes to the client of c, if it is still connected
deliver(ss, c, message) ==
    IF ss[c].client_ws = "connected"
    THEN [ss EXCEPT ![c].client_sent = Append(@, message)]
    ELSE ss

\* a connection that is accepted without the rate-limit check
TwoConnect_unchecked(c) ==
    /\ sessions[c].pc = "start"
    /\ sessions' = [sessions EXCEPT ![c] =
          [@ EXCEPT !.client_ws = "connected", !.session = TRUE,
                    !.pc = "connect"]]
    /\ UNCHANGED <<rl_vars, single_vars, paper_vars>>

\* lines 352-358 for connection c
TwoConnect(c) ==
    /\ sessions[c].pc = "start"
    /\ RateLimitCall(client_ip)
    /\ sessions' = [sessions EXCEPT ![c] =
          IF rl_last'.allowed
          THEN [@ EXCEPT !.client_ws = "connected", !.session = TRUE,
                         !.pc = "connect"]
          ELSE [@ EXCEPT !.client_ws = "closed",
                         !.close_code = POLICY_VIOLATION, !.pc = "done"]]
    /\ UNCHANGED <<single_vars, paper_vars>>

\* connect_to_openai of c's session up to the handshake
TwoConnectToOpenAI(c) ==
    /\ sessions[c].pc = "connect"
    /\ IF ~api_key
       THEN sessions' = [sessions EXCEPT ![c].pc = "finally"]
       ELSE \E handshake \in BOOLEAN :
                sessions' = [sessions EXCEPT ![c] =
                    IF handshake
                    THEN [@ EXCEPT !.openai_ws = "open", !.pc = "configure"]
                    ELSE [@ EXCEPT !.pc = "conn_failed"]]
    /\ UNCHANGED <<rl_vars, single_vars, paper_vars>>

\* _send_session_update of c's session, then create_task
TwoSendSessionUpdate(c) ==
    /\ sessions[c].pc = "configure"
    /\ sessions' = [sessions EXCEPT ![c] =
          IF @.openai_ws = "open"
          THEN [@ EXCEPT !.upstream_sent = send_session_update(@),
                         !.openai_task = "running", !.pc = "loop"]
          ELSE [@ EXCEPT !.pc = "conn_failed"]]
    /\ UNCHANGED <<rl_vars, single_vars, paper_vars>>

\* lines 362-364 for connection c
TwoSendConnectError(c) ==
    /\ sessions[c].pc = "conn_failed"
    /\ sessions' = [deliver(sessions, c,
                        [type |-> "error",
                         message |-> "Failed to connect to OpenAI"])
                    EXCEPT ![c].pc = "finally"]
    /\ UNCHANGED <<rl_vars, single_vars, paper_vars>>

\* lines 372-373 for connection c, up to the first await of
\* handle_client_message
TwoHandleClientMessage(c, frame) ==
    /\ sessions[c].pc = "loop"
    /\ sessions[c].client_ws = "connected"
    /\ ReceivedBy(SessionIds, "client_recv") < MaxTwoMsgs
    /\ sessions' = [sessions EXCEPT ![c] =
          LET got == [@ EXCEPT !.client_recv = Append(@, frame)]
          IN  IF frame = NotJson
              THEN [got EXCEPT !.pc = "loop_error"]
              ELSE IF /\ Get(frame, "type", "None") \in {"audio", "text"}
                      /\ ~PayloadMissing(frame)
                      /\ got.openai_ws = "open"
                   THEN [got EXCEPT
                            !.upstream_sent = Append(@, item_event(frame)),
                            !.pc = "send_response"]
                   ELSE got]
    /\ UNCHANGED <<rl_vars, single_vars, paper_vars>>

\* the second await of handle_client_message of c's session
TwoSendResponseCreate(c) ==
    /\ sessions[c].pc = "send_response"
    /\ sessions' = [sessions EXCEPT ![c] =
          IF @.openai_ws = "open"
          THEN [@ EXCEPT !.upstream_sent = Append(@, response_event),
                         !.pc = "loop"]
          ELSE [@ EXCEPT !.pc = "loop"]]
    /\ UNCHANGED <<rl_vars, single_vars, paper_vars>>

\* lines 375-377 for connection c
TwoHandleDisconnect(c) ==
    /\ sessions[c].pc = "loop"
    /\ sessions[c].client_ws = "disconnected"
    /\ sessions' = [sessions EXCEPT ![c].openai_task = cancel(@),
                                    ![c].pc = "finally"]
    /\ UNCHANGED <<rl_vars, single_vars, paper_vars>>

\* lines 378-380 for connection c
TwoSendLoopError(c) ==
    /\ sessions[c].pc = "loop_error"
    /\ sessions' = [deliver(sessions, c,
                        [type |-> "error", message |-> "Expecting value"])
                    EXCEPT ![c].pc = "finally"]
    /\ UNCHANGED <<rl_vars, single_vars, paper_vars>>

\* lines 382-383 for connection c
TwoFinally(c) ==
    /\ sessions[c].pc = "finally"
    /\ sessions' = [sessions EXCEPT
          ![c].openai_ws = close(@),
          ![c].client_ws = IF @ = "connected" THEN "closed" ELSE @,
          ![c].pc = "done"]
    /\ UNCHANGED <<rl_vars, single_vars, paper_vars>>

\* one round of handle_openai_response of c's session
TwoForwardOpenAIEvent(c, data, raises) ==
    /\ sessions[c].openai_task = "running"
    /\ sessions[c].openai_ws = "open"
    /\ ReceivedBy(SessionIds, "openai_recv") < MaxTwoEvents
    /\ LET got == [sessions EXCEPT ![c].openai_recv = Append(@, data)]
       IN  sessions' =
             IF data = NotJson
             THEN [got EXCEPT ![c].openai_task = "done"]
             ELSE IF ClientMessagesFor(data) = <<>>
                  THEN got
                  ELSE [deliver(got, c, ClientMessagesFor(data)[1])
                        EXCEPT ![c].openai_task =
                            IF got[c].client_ws # "connected" /\ raises
                            THEN "done" ELSE @]
    /\ UNCHANGED <<rl_vars, single_vars, paper_vars>>

\* the iteration of c's forwarding task ends
TwoTaskEnd(c) ==
    /\ sessions[c].openai_task = "running"
    /\ sessions[c].openai_ws \in {"dropped", "closed"}
    /\ sessions' = [sessions EXCEPT ![c].openai_task = "done"]
    /\ UNCHANGED <<rl_vars, single_vars, paper_vars>>

\* c's forwarding task takes its cancellation
TwoTaskCancelled(c) ==
    /\ sessions[c].openai_task = "cancelling"
    /\ sessions' = [sessions EXCEPT ![c].openai_task = "cancelled"]
    /\ UNCHANGED <<rl_vars, single_vars, paper_vars>>

\* the upstream connection of c's session is closed from the other side
TwoUpstreamClose(c) ==
    /\ sessions[c].openai_ws = "open"
    /\ sessions' = [sessions EXCEPT ![c].openai_ws = "dropped"]
    /\ UNCHANGED <<rl_vars, single_vars, paper_vars>>

\* the client of connection c goes away
TwoClientDisconnect(c) ==
    /\ sessions[c].client_ws = "connected"
    /\ sessions' = [sessions EXCEPT ![c].client_ws = "disconnected"]
    /\ UNCHANGED <<rl_vars, single_vars, paper_vars>>

\* no call of fetch_arxiv_papers is under way
PapersIdle ==
    /\ papers = <<>>
    /\ returned = [done |-> FALSE, papers |-> <<>>]
    /\ status_code = 0

\* the connection before it is made
ConnIdle ==
    /\ pc = "start"
    /\ api_key \in BOOLEAN
    /\ session = FALSE
    /\ openai_ws = "None"
    /\ openai_task = "none"
    /\ client_ws = "connecting"
    /\ close_code = 0
    /\ escaped = "none"
    /\ upstream_sent = <<>>
    /\ event_ids = <<>>
    /\ client_sent = <<>>
    /\ client_recv = <<>>
    /\ openai_recv = <<>>
    /\ sessions = [c \in SessionIds |-> NoSession]

InitRate ==
    /\ rate_limit_store \in [Ids -> StartEntries]
    /\ admitted = rate_limit_store
    /\ now = 0
    /\ rl_last = [ip |-> "none", allowed |-> TRUE]
    /\ calls = 0
    /\ ConnIdle
    /\ PapersIdle

NextRate ==
    \/ \E ip \in Ids : fetch_papers(ip)
    \/ \E d \in TickSteps : Tick(d)

SpecRate == InitRate /\ [][NextRate]_vars

\* the state in which a websocket connection arrives, one second before the
\* window of the calls admitted at time 0 ends: the identity's entry is empty,
\* or holds the full window's worth of calls admitted at time 0
Init ==
    /\ rate_limit_store \in
          { [ip \in Ids |-> IF ip = client_ip THEN e ELSE <<>>] :
                e \in {<<>>, Filled(RATE_LIMIT_REQUESTS, 0)} }
    /\ admitted = rate_limit_store
    /\ now = RATE_LIMIT_WINDOW - 1
    /\ rl_last = [ip |-> "none", allowed |-> TRUE]
    /\ calls = 0
    /\ ConnIdle
    /\ PapersIdle

\* the steps of the handler coroutine that wait for nobody
HandlerStep ==
    \/ Connect
    \/ ConnectToOpenAI
    \/ SendSessionUpdate
    \/ SendConnectError
    \/ SendResponseCreate
    \/ HandleDisconnect
    \/ SendLoopError
    \/ Finally

\* the steps of the forwarding task that wait for nobody
TaskStep ==
    \/ TaskEnd
    \/ TaskCancelled

Next ==
    \/ HandlerStep
    \/ TaskStep
    \/ \E frame \in ClientFrames : HandleClientMessage(frame)
    \/ \E data \in OpenAIEvents, raises \in BOOLEAN : ForwardOpenAIEvent(data, raises)
    \/ UpstreamClose
    \/ ClientDisconnect

Spec == Init /\ [][Next]_vars

\* one connection whose upstream service emits every kind of event
NextWide ==
    \/ HandlerStep
    \/ TaskStep
    \/ \E frame \in ClientFrames : HandleClientMessage(frame)
    \/ \E data \in AllOpenAIEvents, raises \in BOOLEAN : ForwardWide(data, raises)
    \/ UpstreamClose
    \/ ClientDisconnect

SpecWide == Init /\ [][NextWide]_vars

\* one connection whose client stays silent and whose upstream service emits
\* every kind of event
NextUp ==
    \/ Connect
    \/ ConnectToOpenAI
    \/ SendSessionUpdate
    \/ SendConnectError
    \/ HandleDisconnect
    \/ Finally
    \/ TaskStep
    \/ \E data \in AllOpenAIEvents, raises \in BOOLEAN :
            ForwardOpenAIEvent(data, raises)
    \/ UpstreamClose
    \/ ClientDisconnect

SpecUp == Init /\ [][NextUp]_vars

\* one connection with the clock advancing between its steps, or not
NextIds ==
    \/ Next
    \/ \E d \in TickSteps : Tick(d)

SpecIds == Init /\ [][NextIds]_vars

\* the event loop runs every coroutine that is ready: a step of the handler
\* or of the task that stays possible is taken. The client and the upstream
\* service owe nothing: they may stay silent and connected for ever.
FairSpec == Spec /\ WF_vars(HandlerStep) /\ WF_vars(TaskStep)

\* the state in which two connections of one identity arrive: the
\* identity's entry is empty, or one call short of the ceiling
InitTwo ==
    /\ rate_limit_store \in
          { [ip \in Ids |-> IF ip = client_ip THEN e ELSE <<>>] :
                e \in {<<>>, Filled(RATE_LIMIT_REQUESTS - 1, 0)} }
    /\ admitted = rate_limit_store
    /\ now = RATE_LIMIT_WINDOW - 1
    /\ rl_last = [ip |-> "none", allowed |-> TRUE]
    /\ calls = 0
    /\ ConnIdle
    /\ PapersIdle

\* the handlers and tasks of the connections interleave at their awaits
NextTwo ==
    \E c \in SessionIds :
        \/ TwoConnect(c)
        \/ TwoConnectToOpenAI(c)
        \/ TwoSendSessionUpdate(c)
        \/ TwoSendConnectError(c)
        \/ \E frame \in FramesOf(c) : TwoHandleClientMessage(c, frame)
        \/ TwoSendResponseCreate(c)
        \/ TwoHandleDisconnect(c)
        \/ TwoSendLoopError(c)
        \/ TwoFinally(c)
        \/ \E data \in EventsOf(c), raises \in BOOLEAN :
                TwoForwardOpenAIEvent(c, data, raises)
        \/ TwoTaskEnd(c)
        \/ TwoTaskCancelled(c)
        \/ TwoUpstreamClose(c)
        \/ TwoClientDisconnect(c)

SpecTwo == InitTwo /\ [][NextTwo]_vars

\* the admission checks of concurrent requests: paper requests of every
\* identity and websocket connections, interleaved with the clock
NextMix ==
    \/ \E ip \in Ids : fetch_papers(ip)
    \/ \E c \in SessionIds : TwoConnect(c)
    \/ \E d \in TickSteps : Tick(d)

SpecMix == InitRate /\ [][NextMix]_vars

\* ------------------------------------------------------------------------
\* fetch_arxiv_papers: from the papers built out of the fetched entries to
\* the list it returns
\* ------------------------------------------------------------------------

\* the default of the parameter max_results
max_results == 10

\* Paper.published: the feed's timestamp string, whose fields have a fixed
\* width (year, then the rest), so that strings compare field by field
StrLess(a, b) == a[1] < b[1] \/ (a[1] = b[1] /\ a[2] < b[2])

\* "if paper.id not in unique_papers: unique_papers[paper.id] = paper", then
\* list(unique_papers.values()): the first paper of each id, in the order
\* the ids were first met
RECURSIVE unique_papers(_)
unique_papers(list) ==
    IF list = <<>>
    THEN <<>>
    ELSE LET front == unique_papers(SubSeq(list, 1, Len(list) - 1))
             paper == list[Len(list)]
         IN  IF \E i \in 1..Len(front) : front[i].id = paper.id
             THEN front
             ELSE Append(front, paper)

\* the place of one paper in a list sorted by published, latest first:
\* before the first paper that is older, so behind those of its own date
RECURSIVE InsertPublished(_, _)
InsertPublished(paper, sorted) ==
    IF sorted = <<>>
    THEN <<paper>>
    ELSE IF StrLess(Head(sorted).published, paper.published)
         THEN <<paper>> \o sorted
         ELSE <<Head(sorted)>> \o InsertPublished(paper, Tail(sorted))

\* papers.sort(key=lambda x: x.published, reverse=True): a stable sort on the
\* published string, greatest first
RECURSIVE sort_published(_)
sort_published(list) ==
    IF list = <<>>
    THEN <<>>
    ELSE InsertPublished(list[Len(list)],
                         sort_published(SubSeq(list, 1, Len(list) - 1)))

\* a return of the whole sorted list
first_results_uncut(list) == list

\* papers[:max_results]
first_results(list) ==
    SubSeq(list, 1, IF Len(list) < max_results THEN Len(list) ELSE max_results)

\* the published string of the paper with a given id, under four ways the
\* dates can lie: rising with the order of fetching, falling, all equal,
\* mixed over two years
PublishedOf(k, id) ==
    CASE k = 1 -> <<2024, id + 1>>
      [] k = 2 -> <<2025, 20 - id>>
      [] k = 3 -> <<2024, 1>>
      [] k = 4 -> <<2023 + (id % 2), ((id * 5) % 7) + 1>>

\* the papers built from n fetched entries that hold m different papers: the
\* entries of the topics follow each other, and a paper that several topics
\* return comes again with the same data (pos tells the occurrences apart)
Fetched(n, m, k) ==
    [i \in 1..n |-> [id |-> (i - 1) % m,
                     published |-> PublishedOf(k, (i - 1) % m),
                     pos |-> i]]

\* the lists of fetched papers a call starts from
FetchedLists ==
    { Fetched(n, m, k) : n \in 0..MaxFetched,
                         m \in {3, max_results + 1, MaxFetched},
                         k \in 1..4 }

\* lines 329-338: deduplicate, sort, cut, return
fetch_arxiv_papers ==
    /\ ~returned.done
    /\ returned' = [done |-> TRUE,
                    papers |-> first_results(sort_published(unique_papers(papers)))]
    /\ UNCHANGED <<rl_vars, conn_vars, papers, status_code>>

InitPapers ==
    /\ rate_limit_store = [ip \in Ids |-> <<>>]
    /\ admitted = rate_limit_store
    /\ now = 0
    /\ rl_last = [ip |-> "none", allowed |-> TRUE]
    /\ calls = 0
    /\ ConnIdle
    /\ papers \in FetchedLists
    /\ returned = [done |-> FALSE, papers |-> <<>>]
    /\ status_code = 0

NextPapers == fetch_arxiv_papers

SpecPapers == InitPapers /\ [][NextPapers]_vars

\* one connection whose handler the server may cancel
NextCancel ==
    \/ Next
    \/ HandlerCancelled

FairSpecCancel ==
    Init /\ [][NextCancel]_vars /\ WF_vars(HandlerStep) /\ WF_vars(TaskStep)

\* ------------------------------------------------------------------------
\* What the claims speak of
\* ------------------------------------------------------------------------

\* the number of messages of one type in a list of messages
CountType(messages, type) ==
    Len(SelectSeq(messages, LAMBDA m : m.type = type))

\* `session_ready` messages sent to the client
ReadyCount == CountType(client_sent, "session_ready")

\* `error` messages sent to the client
ErrorCount == CountType(client_sent, "error")

\* session.update events sent upstream
UpdateCount == CountType(upstream_sent, "session.update")

\* connect_to_openai has returned True: handshake and configuration send done
Established == openai_task # "none"

\* a client message of kind text or audio with its content
UserContent(frame) ==
    /\ Get(frame, "type", "None") \in {"audio", "text"}
    /\ ~PayloadMissing(frame)

\* the events the claims ask for, for the frames received: one item-create
\* and one response-create for every text or audio message, in order
RECURSIVE ExpectedPairs(_)
ExpectedPairs(frames) ==
    IF frames = <<>>
    THEN <<>>
    ELSE (IF UserContent(Head(frames))
          THEN <<item_event(Head(frames)), response_event>>
          ELSE <<>>) \o ExpectedPairs(Tail(frames))

\* a response is streaming: a delta was received and no response.done after it
RECURSIVE Streaming(_)
Streaming(events) ==
    IF events = <<>>
    THEN FALSE
    ELSE LET last == events[Len(events)]
         IN  IF last.type = "response.done"
             THEN FALSE
             ELSE IF last.type \in {"response.text.delta", "response.audio.delta"}
                  THEN TRUE
                  ELSE Streaming(SubSeq(events, 1, Len(events) - 1))

\* the number of timestamps of a list that lie inside the window ending at t
InWindow(timestamps, t) ==
    Cardinality({i \in 1..Len(timestamps) :
                    timestamps[i] <= t /\ t - timestamps[i] < RATE_LIMIT_WINDOW})

\* ------------------------------------------------------------------------
\* The claims
\* ------------------------------------------------------------------------

\* C1: for every sequence of upstream events, `session_ready` is sent to the
\* client at most once, and never before connect_to_openai has completed a
\* successful upstream handshake.
C1_ReadyAtMostOnce ==
    /\ ReadyCount <= 1
    /\ ReadyCount >= 1 => Established

\* the events after the configuration come in whole pairs: every
\* conversation.item.create is directly followed by a response.create
WholePairs(events) ==
    LET body == Tail(events)
    IN  /\ Len(body) % 2 = 0
        /\ \A i \in 1..Len(body) :
              IF i % 2 = 1
              THEN body[i].type = "conversation.item.create"
              ELSE body[i] = response_event

\* C2: whenever the handler is back in its read loop, every text or audio
\* message handled on the open upstream connection has put exactly one
\* conversation.item.create (role user, its content) and exactly one
\* response.create on it, item first, the pairs in the order of the messages
\* and not interleaved; and a pair that was begun is whole also when the
\* upstream connection closed between its two sends.
C2_OnePairPerMessage ==
    (Established /\ pc = "loop") =>
        /\ WholePairs(upstream_sent)
        /\ openai_ws = "open" =>
              upstream_sent = <<session_update>> \o ExpectedPairs(client_recv)

\* C3: session.update is never sent twice, it is the first event sent on the
\* upstream connection (so it precedes every conversation.item.create and
\* response.create), and a session that connect_to_openai has established
\* has sent it exactly once.
C3_ConfigOnceAndFirst ==
    /\ UpdateCount <= 1
    /\ upstream_sent # <<>> => upstream_sent[1] = session_update
    /\ Established => UpdateCount = 1

\* C3, its case: the configuration, then a user turn
C3_Witness ==
    /\ Len(upstream_sent) >= 3
    /\ upstream_sent[1] = session_update
    /\ upstream_sent[2].type = "conversation.item.create"
    /\ upstream_sent[3] = response_event

\* C4: when the upstream forwarding loop has ended while the client is still
\* connected, the client read loop is terminated and both connections get
\* released, without the client having to disconnect first.
C4_UpstreamEndStopsClientLoop ==
    (openai_task = "done" /\ client_ws = "connected")
        ~> \/ pc = "done" /\ openai_ws # "open" /\ client_ws = "closed"
           \/ client_ws = "disconnected"

\* C5: when the client disconnects from an established session, the
\* forwarding task terminates and the upstream connection is closed: no
\* forwarding task and no open upstream connection of the session remains.
C5_DisconnectReleasesUpstream ==
    (Established /\ client_ws = "disconnected")
        ~> (openai_task \in {"done", "cancelled"} /\ openai_ws \in {"dropped", "closed"})

\* C5, its case: the client left an established session, the task was
\* cancelled and the session closed the upstream connection
C5_Witness ==
    /\ client_ws = "disconnected"
    /\ pc = "done"
    /\ openai_task = "cancelled"
    /\ openai_ws = "closed"

\* C6: if the upstream connection drops while a response is streaming, the
\* relay sends exactly one `error` message to the client and closes the
\* client connection (unless the client has left by itself).
C6_DropMidResponseReported ==
    (openai_ws = "dropped" /\ Streaming(openai_recv) /\ client_ws = "connected")
        ~> \/ ErrorCount = 1 /\ client_ws = "closed"
           \/ client_ws = "disconnected"

\* a fatal condition of the session has occurred: missing credentials, a
\* failed handshake or configuration send, the loss of the upstream
\* connection, an exception other than a disconnect in the client read loop
FatalCondition ==
    /\ session
    /\ \/ ~api_key
       \/ ~Established
       \/ openai_ws = "dropped"
       \/ (client_recv # <<>> /\ client_recv[Len(client_recv)] = NotJson)

\* C7: every fatal condition of a session results in exactly one `error`
\* message sent to the client before the client connection is closed.
C7_OneErrorPerFatal ==
    (pc = "done" /\ FatalCondition) => ErrorCount = 1

\* C8: without OPENAI_API_KEY the session ends with no upstream connection
\* attempted, no forwarding loop started, and a configuration error reported
\* to the client.
C8_MissingKeyReported ==
    (pc = "done" /\ session /\ ~api_key) =>
        /\ openai_ws = "None"
        /\ openai_task = "none"
        /\ upstream_sent = <<>>
        /\ ErrorCount >= 1

\* C9: a check_rate_limit call of an identity that has RATE_LIMIT_REQUESTS
\* admitted calls inside the window ending now is denied, and a call that
\* comes RATE_LIMIT_WINDOW or more after the identity's last admitted call is
\* admitted.
C9_CeilingAndRecovery ==
    [][\A ip \in Ids :
          (calls' = calls + 1 /\ rl_last'.ip = ip) =>
              /\ InWindow(admitted[ip], now) >= RATE_LIMIT_REQUESTS
                    => ~rl_last'.allowed
              /\ (admitted[ip] # <<>>
                    /\ now - admitted[ip][Len(admitted[ip])] >= RATE_LIMIT_WINDOW)
                    => rl_last'.allowed]_vars

\* C9, its case: the identity reached the ceiling, had a call denied inside
\* the window (one call more than were admitted), and was admitted again once
\* the window had passed
C9_Witness ==
    /\ rl_last = [ip |-> "a", allowed |-> TRUE]
    /\ Len(admitted["a"]) = RATE_LIMIT_REQUESTS + 1
    /\ Len(admitted["a"]) - Len(Filled(RATE_LIMIT_REQUESTS - 2, 0)) + 1 = calls
    /\ rate_limit_store["a"] = <<now>>

\* C10: a websocket connection whose identity check_rate_limit denies is
\* closed with code 1008 before any session exists: no RealtimeSession, no
\* upstream connection, no message to the client.
C10_DeniedBeforeSession ==
    (rl_last.ip = client_ip /\ ~rl_last.allowed) =>
        /\ close_code = POLICY_VIOLATION
        /\ client_ws = "closed"
        /\ pc = "done"
        /\ ~session
        /\ openai_ws = "None"
        /\ openai_task = "none"
        /\ upstream_sent = <<>>
        /\ client_sent = <<>>

\* C10, its case: the 101st connection inside the window, closed with 1008
C10_Witness ==
    /\ rl_last = [ip |-> client_ip, allowed |-> FALSE]
    /\ Len(rate_limit_store[client_ip]) = RATE_LIMIT_REQUESTS
    /\ close_code = POLICY_VIOLATION

\* C11: within one session no two events sent upstream carry the same
\* event_id, whatever the clock did between them.
C11_EventIdsUnique ==
    \A i, j \in 1..Len(event_ids) : i # j => event_ids[i] # event_ids[j]

\* C12: while the client is connected, every `error` event the upstream has
\* emitted on the session has been relayed to the client as an `error`
\* message carrying the upstream's error.
C12_UpstreamErrorRelayed ==
    client_ws = "connected" =>
        \A i \in 1..Len(openai_recv) :
            Get(openai_recv[i], "type", "None") = "error" =>
                \E j \in 1..Len(client_sent) :
                    client_sent[j] = [type |-> "error",
                                      message |-> openai_recv[i].message]

\* a client frame that is not JSON, or that lacks its payload field
Malformed(frame) ==
    \/ frame = NotJson
    \/ Get(frame, "type", "None") \in {"audio", "text"} /\ PayloadMissing(frame)

\* C13: a malformed inbound message does not terminate the session: after a
\* malformed client frame the handler is still in its read loop, and after
\* an upstream frame that is not JSON the forwarding task is still running
\* as long as the upstream connection is open.
C13_MalformedSkipped ==
    /\ (client_ws = "connected" /\ \E i \in 1..Len(client_recv) :
                                        Malformed(client_recv[i]))
          => pc \in {"loop", "send_response"}
    /\ (openai_ws = "open" /\ pc \in {"loop", "send_response"}
           /\ \E i \in 1..Len(openai_recv) : openai_recv[i] = NotJson)
          => openai_task = "running"

\* the client messages the received upstream events translate to, in the
\* order of the events
RECURSIVE Translated(_)
Translated(events) ==
    IF events = <<>>
    THEN <<>>
    ELSE ClientMessagesFor(Head(events)) \o Translated(Tail(events))

\* the messages sent to the client that come from upstream events (the
\* `error` messages are the handler's own)
Relayed == SelectSeq(client_sent, LAMBDA m : m.type # "error")

\* a is an initial part of b
IsPrefix(a, b) == Len(a) <= Len(b) /\ SubSeq(b, 1, Len(a)) = a

\* C14: in each direction what the relay has sent is an initial part of what
\* the received messages translate to, in the order they were received:
\* nothing is reordered, merged or sent twice.
C14_OrderPreserved ==
    /\ IsPrefix(Relayed, Translated(openai_recv))
    /\ upstream_sent # <<>> =>
          IsPrefix(Tail(upstream_sent), ExpectedPairs(client_recv))

\* C14, its case: two different messages relayed in each direction
C14_Witness ==
    /\ Len(Relayed) = 2
    /\ Relayed[1] # Relayed[2]
    /\ Len(upstream_sent) = 5
    /\ upstream_sent[2] # upstream_sent[4]

\* C15: in every state of a session, close() leaves the upstream connection
\* released or never opened, without failing, and a second close() leaves
\* it exactly as the first did.
C15_CloseIdempotent ==
    session =>
        LET once == close(openai_ws)
        IN  /\ once \in {"None", "dropped", "closed"}
            /\ close(once) = once

\* C15, its case: the handler's close() has closed a connected session, and
\* close() is applied to it again
C15_Witness ==
    /\ pc = "done"
    /\ session
    /\ openai_ws = "closed"
    /\ client_ws = "closed"
    /\ close(openai_ws) = openai_ws

\* C16: once the handler of a constructed session has returned, by whatever
\* path, the upstream connection is not open, and the forwarding task, if
\* one was started, comes to its end.
C16_ExitsReleaseUpstream ==
    /\ []((session /\ pc = "done") => openai_ws # "open")
    /\ ((session /\ pc = "done") ~> (openai_task \in {"none", "done", "cancelled"}))

\* C16, its case: the handler was cancelled in an established session; the
\* finally closed the upstream connection and the task ended
C16_Witness ==
    /\ escaped = "CancelledError"
    /\ pc = "done"
    /\ openai_ws = "closed"
    /\ openai_task = "done"

\* the upstream events that carry the transcription of the user's audio
TranscriptionEvents(events) ==
    SelectSeq(events, LAMBDA e :
        Get(e, "type", "None") \in
            {"conversation.item.input_audio_transcription.delta",
             "conversation.item.input_audio_transcription.completed"})

\* the transcription messages in a list of client messages
TranscriptionMessages(messages) ==
    SelectSeq(messages, LAMBDA m :
        m.type \in {"transcription_delta", "transcription_complete"})

\* C18: while the client is connected, every transcription event the
\* upstream has emitted has been forwarded to it as a transcription_delta or
\* transcription_complete message.
C18_TranscriptionForwarded ==
    client_ws = "connected" =>
        Len(TranscriptionMessages(client_sent))
            = Len(TranscriptionEvents(openai_recv))

\* a client message that is JSON and whose kind is neither text nor audio
OtherKind(frame) ==
    frame # NotJson /\ Get(frame, "type", "None") \notin {"audio", "text"}

\* C19: the step that handles a client message of another kind sends
\* nothing upstream and leaves the handler in its read loop with both
\* connections and the forwarding task as they were; and in a session that
\* has handled such a message the upstream events are still relayed to the
\* connected client (session_ready among them) and the text and audio
\* messages are still forwarded on the open upstream connection.
C19_OtherKindIgnored ==
    /\ [][(client_recv' # client_recv
             /\ OtherKind(client_recv'[Len(client_recv')]))
            => /\ pc' = "loop"
               /\ UNCHANGED <<upstream_sent, client_sent, openai_ws,
                              openai_task, client_ws>>]_vars
    /\ []((\E i \in 1..Len(client_recv) : OtherKind(client_recv[i])) =>
            /\ client_ws = "connected" => Relayed = Translated(openai_recv)
            /\ (pc = "loop" /\ openai_ws = "open") =>
                  upstream_sent = <<session_update>> \o ExpectedPairs(client_recv))

\* C19, its case: a ping, then the acknowledgment relayed as session_ready
\* and a text message forwarded as its pair
C19_Witness ==
    /\ client_recv = <<[type |-> "ping"], [type |-> "text", text |-> "hello"]>>
    /\ upstream_sent = <<session_update,
                         item_event([type |-> "text", text |-> "hello"]),
                         response_event>>
    /\ openai_recv = <<[type |-> "session.created"]>>
    /\ client_sent = <<[type |-> "session_ready"]>>

\* the kinds of upstream event C20 lists
Listed(data) ==
    Get(data, "type", "None") \in
        {"session.created", "response.audio.delta", "response.text.delta",
         "response.done", "input_audio_buffer.speech_started",
         "input_audio_buffer.speech_stopped"}

\* the client message C20 gives for a listed event
FixedMessage(data) ==
    CASE data.type = "session.created" -> [type |-> "session_ready"]
      [] data.type = "response.audio.delta" ->
            [type |-> "audio_delta", audio |-> data.delta]
      [] data.type = "response.text.delta" ->
            [type |-> "text_delta", text |-> data.delta]
      [] data.type = "response.done" -> [type |-> "response_done"]
      [] data.type = "input_audio_buffer.speech_started" ->
            [type |-> "speech_started"]
      [] data.type = "input_audio_buffer.speech_stopped" ->
            [type |-> "speech_stopped"]

\* C20: the step in which the forwarding task reads a listed upstream event
\* sends the connected client exactly one message, the one of the fixed
\* kind for the event: the deltas with the event's delta unchanged, the
\* others with no field but their type.
C20_FixedMapping ==
    [][(openai_recv' # openai_recv /\ client_ws = "connected"
          /\ Listed(openai_recv'[Len(openai_recv')]))
        => client_sent' =
              Append(client_sent, FixedMessage(openai_recv'[Len(openai_recv')]))]_vars

\* C20, its case: an audio delta went through with its payload
C20_Witness ==
    /\ openai_recv = <<[type |-> "response.audio.delta", delta |-> "AAEC"]>>
    /\ client_sent = <<[type |-> "audio_delta", audio |-> "AAEC"]>>
    /\ client_ws = "connected"

\* the messages sent to the client of c that come from upstream events
RelayedOf(c) == SelectSeq(sessions[c].client_sent, LAMBDA m : m.type # "error")

\* C17: with two concurrent sessions, what a session has sent upstream
\* comes from the frames of its own client and what it has sent to its
\* client comes from the events of its own upstream connection, and every
\* step changes the state of at most one session; a step of a session
\* changes nothing else but the rate-limit state.
C17_SessionsIsolated ==
    /\ [](\A c \in SessionIds :
            /\ IsPrefix(RelayedOf(c), Translated(sessions[c].openai_recv))
            /\ sessions[c].upstream_sent # <<>> =>
                  /\ sessions[c].upstream_sent[1] = session_update
                  /\ IsPrefix(Tail(sessions[c].upstream_sent),
                              ExpectedPairs(sessions[c].client_recv)))
    /\ [][/\ \E c \in SessionIds :
               \A d \in SessionIds \ {c} : sessions'[d] = sessions[d]
          /\ sessions' # sessions => UNCHANGED single_vars]_vars

\* C17, its case: both sessions are established on the shared rate-limit
\* entry; the first has forwarded its client's text, the second has relayed
\* its upstream's delta, and neither has seen the other's message
C17_Witness ==
    /\ Len(rate_limit_store[client_ip]) = 2
    /\ sessions[1].upstream_sent =
          <<session_update, item_event([type |-> "text", text |-> TextOf(1)]),
            response_event>>
    /\ sessions[1].client_sent = <<>>
    /\ sessions[2].upstream_sent = <<session_update>>
    /\ sessions[2].client_sent = <<[type |-> "text_delta", text |-> DeltaOf(2)]>>

\* the session is in its active phase: handshake and configuration send
\* have succeeded, the upstream connection is open, teardown has not begun
Active ==
    /\ Established
    /\ openai_ws = "open"
    /\ pc \in {"loop", "send_response"}

\* C21: handle_client_message is invoked (a frame that is JSON is read and
\* handed to it), and an event is sent upstream for a client message, only
\* in a step that starts in the active phase.
C21_OnlyWhileActive ==
    [][/\ (client_recv' # client_recv
             /\ client_recv'[Len(client_recv')] # NotJson) => Active
       /\ (upstream_sent' # upstream_sent /\ upstream_sent # <<>>) => Active]_vars

\* C22: the step that handles a text or audio message while a response is
\* streaming sends the message's item-create on the open upstream
\* connection at once, and the step after it in the handler is the send of
\* the response-create: nothing is queued, delayed or dropped.
C22_ForwardedWhileStreaming ==
    /\ [][(client_recv' # client_recv
             /\ UserContent(client_recv'[Len(client_recv')])
             /\ Streaming(openai_recv) /\ openai_ws = "open")
            => /\ upstream_sent' =
                    Append(upstream_sent,
                           item_event(client_recv'[Len(client_recv')]))
               /\ pc' = "send_response"]_vars
    /\ [][(pc = "send_response" /\ pc' # pc /\ openai_ws = "open")
            => /\ upstream_sent' = Append(upstream_sent, response_event)
               /\ pc' = "loop"]_vars

\* C22, its case: a delta has been relayed, no response.done yet, and the
\* pair of a client message is on the upstream connection
C22_Witness ==
    /\ openai_recv = <<[type |-> "response.text.delta", delta |-> "Hi"]>>
    /\ client_sent = <<[type |-> "text_delta", text |-> "Hi"]>>
    /\ client_recv = <<[type |-> "audio", audio |-> "UklGRg"]>>
    /\ Len(upstream_sent) = 3
    /\ pc = "loop"

\* C23: a session attempts its upstream connection once: the handler never
\* comes back to connect_to_openai, the upstream handle is set only by that
\* one attempt, and a handle that was set is never replaced: a connection
\* that was dropped or closed, or a handshake that failed, stays so.
C23_NoReconnect ==
    [][/\ pc' = "connect" => pc \in {"start", "connect"}
       /\ (openai_ws' = "open" /\ openai_ws # "open")
             => (openai_ws = "None" /\ pc = "connect")
       /\ openai_ws' = "None" => openai_ws = "None"
       /\ (pc # "connect" /\ openai_ws = "None") => openai_ws' = "None"]_vars

\* C23, its case: the session ended after a failed attempt (or after its
\* connection had dropped) without a second attempt
C23_Witness ==
    /\ pc = "done"
    /\ session
    /\ api_key
    /\ openai_ws \in {"None", "dropped"}
    /\ client_sent = <<[type |-> "error",
                        message |-> "Failed to connect to OpenAI"]>>

Unhandled(data) == data # NotJson /\ ~Listed(data)

\* the client messages the table of C20 gives for the listed events among
\* the events received
FixedMessages(events) ==
    LET listed == SelectSeq(events, Listed)
    IN  [i \in 1..Len(listed) |-> FixedMessage(listed[i])]

\* C25: the step in which the forwarding task reads an event of a kind that
\* is not in the translation table sends the client nothing and leaves the
\* task running on its connection; and the events of the listed kinds,
\* before and after it, are relayed to the connected client as if it had
\* not come.
C25_UnknownKindDropped ==
    /\ [][(openai_recv' # openai_recv
             /\ Unhandled(openai_recv'[Len(openai_recv')]))
            => /\ client_sent' = client_sent
               /\ openai_task' = openai_task
               /\ openai_ws' = openai_ws]_vars
    /\ [](client_ws = "connected" => Relayed = FixedMessages(openai_recv))

\* C25, its case: session.updated was dropped and the delta after it relayed
C25_Witness ==
    /\ openai_recv = <<[type |-> "session.updated"],
                       [type |-> "response.text.delta", delta |-> "Hi"]>>
    /\ client_sent = <<[type |-> "text_delta", text |-> "Hi"]>>
    /\ openai_task = "running"

\* the timestamps of a list that are younger than the window at time t
Fresh(timestamps, t) ==
    SelectSeq(timestamps, LAMBDA ts : t - ts < RATE_LIMIT_WINDOW)

\* C26: a denied check_rate_limit call leaves the identity's list as it was
\* but for the expired timestamps, and an allowed call leaves it with
\* exactly one more timestamp, the current time, at its end.
C26_DeniedRecordsNothing ==
    [][\A ip \in Ids :
          (calls' = calls + 1 /\ rl_last'.ip = ip) =>
              IF rl_last'.allowed
              THEN rate_limit_store'[ip] =
                      Append(Fresh(rate_limit_store[ip], now), now)
              ELSE rate_limit_store'[ip] = Fresh(rate_limit_store[ip], now)]_vars

\* C26, its case: two calls denied in a row at the ceiling have recorded
\* nothing
C26_Witness ==
    /\ rl_last = [ip |-> "a", allowed |-> FALSE]
    /\ Len(rate_limit_store["a"]) = RATE_LIMIT_REQUESTS
    /\ Len(admitted["a"]) = RATE_LIMIT_REQUESTS
    /\ calls = 4

\* C27: right after a check_rate_limit call of an identity every timestamp
\* stored for it is younger than the window, and the call was allowed
\* exactly if fewer than RATE_LIMIT_REQUESTS of the timestamps stored before
\* it were younger than the window.
C27_PrunedBeforeDecision ==
    [][\A ip \in Ids :
          (calls' = calls + 1 /\ rl_last'.ip = ip) =>
              /\ \A i \in 1..Len(rate_limit_store'[ip]) :
                    now - rate_limit_store'[ip][i] < RATE_LIMIT_WINDOW
              /\ rl_last'.allowed <=>
                    Len(Fresh(rate_limit_store[ip], now)) < RATE_LIMIT_REQUESTS]_vars

\* C27, its case: a call after the window has passed found the burst of
\* time 0 expired, pruned it and was allowed
C27_Witness ==
    /\ rl_last = [ip |-> "b", allowed |-> TRUE]
    /\ now >= RATE_LIMIT_WINDOW
    /\ rate_limit_store["b"] = <<now>>
    /\ Len(admitted["b"]) = RATE_LIMIT_REQUESTS - 1

\* the number of timestamps of a list inside the interval [s, s + WINDOW)
InInterval(timestamps, s) ==
    Cardinality({i \in 1..Len(timestamps) :
                    s <= timestamps[i] /\ timestamps[i] < s + RATE_LIMIT_WINDOW})

\* C30: every identity's entry holds at most RATE_LIMIT_REQUESTS timestamps,
\* and no interval of length RATE_LIMIT_WINDOW holds more than
\* RATE_LIMIT_REQUESTS of the calls ever admitted to the identity.
C30_WindowBound ==
    \A ip \in Ids :
        /\ Len(rate_limit_store[ip]) <= RATE_LIMIT_REQUESTS
        /\ \A s \in (0 - RATE_LIMIT_WINDOW)..now :
              InInterval(admitted[ip], s) <= RATE_LIMIT_REQUESTS

\* C30, its case: an identity with a full window at time 0..59 and calls
\* admitted again after it
C30_Witness ==
    /\ InInterval(admitted["a"], 0) = RATE_LIMIT_REQUESTS
    /\ Len(admitted["a"]) > RATE_LIMIT_REQUESTS
    /\ Len(rate_limit_store["a"]) = 2

\* a is a final part of b
IsSuffix(a, b) ==
    Len(a) <= Len(b) /\ SubSeq(b, Len(b) - Len(a) + 1, Len(b)) = a

\* C28: whatever the interleaving of the requests, every step holds at most
\* one whole check_rate_limit call: a call of an identity decides on that
\* identity's entry as the calls before it left it and leaves the entry of
\* every other identity untouched, a step without a call leaves the map
\* untouched, and every entry is a final part of the calls admitted to its
\* identity in the order they were made.
C28_ChecksAtomicAndIsolated ==
    /\ [][/\ calls' \in {calls, calls + 1}
          /\ calls' = calls =>
                UNCHANGED <<rate_limit_store, admitted, rl_last>>
          /\ calls' = calls + 1 =>
                LET ip == rl_last'.ip
                IN  /\ \A other \in Ids \ {ip} :
                          /\ rate_limit_store'[other] = rate_limit_store[other]
                          /\ admitted'[other] = admitted[other]
                    /\ rl_last'.allowed <=>
                          Len(Fresh(rate_limit_store[ip], now))
                              < RATE_LIMIT_REQUESTS
                    /\ admitted'[ip] = IF rl_last'.allowed
                                       THEN Append(admitted[ip], now)
                                       ELSE admitted[ip]]_vars
    /\ [](\A ip \in Ids : IsSuffix(rate_limit_store[ip], admitted[ip]))

\* C28, its case: two websocket connections and two paper requests of the
\* two identities have been checked, the last one for the other identity
\* after the window of its earlier calls had passed
C28_Witness ==
    /\ sessions[1].pc # "start"
    /\ sessions[2].pc # "start"
    /\ rl_last.ip = "b"
    /\ calls = 4
    /\ now >= RATE_LIMIT_WINDOW
    /\ Len(admitted["b"]) > Len(rate_limit_store["b"])
    /\ Len(admitted["a"]) = RATE_LIMIT_REQUESTS

\* the date a published string stands for, as a number
DateValue(published) == published[1] * 1000 + published[2]

\* C29: the list fetch_arxiv_papers returns holds no id twice, each of its
\* papers is the first fetched occurrence of its id, the papers are ordered
\* by published date from the most recent to the oldest, and there are at
\* most max_results of them.
C29_DedupSortedCapped ==
    returned.done =>
        LET out == returned.papers
        IN  /\ \A i, j \in 1..Len(out) : i # j => out[i].id # out[j].id
            /\ \A i \in 1..Len(out) :
                  /\ out[i].pos \in 1..Len(papers)
                  /\ papers[out[i].pos] = out[i]
                  /\ \A j \in 1..(out[i].pos - 1) : papers[j].id # out[i].id
            /\ \A i, j \in 1..Len(out) :
                  i < j => DateValue(out[i].published)
                              >= DateValue(out[j].published)
            /\ Len(out) <= max_results

\* C29, its case: twelve fetched papers with eleven ids, fetched oldest
\* first; one is a duplicate, one is cut off, and the ten returned start
\* with the latest
C29_Witness ==
    /\ returned.done
    /\ Len(papers) = 12
    /\ papers[12].id = papers[1].id
    /\ Len(returned.papers) = max_results
    /\ returned.papers[1].pos = 11
    /\ returned.papers[10].pos = 2

\* C31: websocket connections and paper requests of one identity are
\* checked against the same entry. A websocket connection that arrives
\* when RATE_LIMIT_REQUESTS requests of the identity, of whatever kind, were
\* admitted inside the window is closed with 1008 and gets no session; a
\* paper request that arrives then is answered with 429; and an admitted
\* request of either kind puts its timestamp on the identity's entry.
C31_SharedBudget ==
    [][/\ \A c \in SessionIds :
             (sessions[c].pc = "start" /\ sessions'[c].pc # "start") =>
                 IF InWindow(admitted[client_ip], now) >= RATE_LIMIT_REQUESTS
                 THEN /\ sessions'[c].pc = "done"
                      /\ sessions'[c].close_code = POLICY_VIOLATION
                      /\ sessions'[c].client_ws = "closed"
                      /\ ~sessions'[c].session
                      /\ admitted' = admitted
                 ELSE /\ sessions'[c].session
                      /\ rate_limit_store'[client_ip] =
                            Append(Fresh(rate_limit_store[client_ip], now), now)
       /\ \A ip \in Ids :
             (calls' = calls + 1 /\ sessions' = sessions /\ rl_last'.ip = ip) =>
                 IF InWindow(admitted[ip], now) >= RATE_LIMIT_REQUESTS
                 THEN status_code' = TOO_MANY_REQUESTS /\ admitted' = admitted
                 ELSE /\ status_code' = 0
                      /\ rate_limit_store'[ip] =
                            Append(Fresh(rate_limit_store[ip], now), now)]_vars

\* C31, its case: inside one window the identity's budget was used up by
\* requests of both kinds (the burst of time 0, a websocket connection and
\* a paper request); the next websocket connection was closed with 1008 and
\* the next paper request answered with 429
C31_Witness ==
    /\ now < RATE_LIMIT_WINDOW
    /\ Len(rate_limit_store[client_ip]) = RATE_LIMIT_REQUESTS
    /\ \E c \in SessionIds :
          /\ sessions[c].session
          /\ \E d \in SessionIds \ {c} :
                sessions[d].close_code = POLICY_VIOLATION
    /\ rl_last = [ip |-> client_ip, allowed |-> FALSE]
    /\ status_code = TOO_MANY_REQUESTS
    /\ calls = 4

====
